---------------------------- MODULE Spec2Model ----------------------------
(***************************************************************************)
(* A state-machine model of ecph5/ECPBuilder.py: one ECPBuilder object,   *)
(* the embeddings file it reads, the representatives file and the index   *)
(* file it writes.                                                        *)
(*                                                                         *)
(* Embeddings are one-dimensional integer vectors, so that every score is *)
(* exact: L2 is |r - q|, IP is r * q and cos is sgn(r) * sgn(q).           *)
(* Python containers are TLA+ sequences; a Python index i is position     *)
(* i + 1 of the sequence.  An attribute that may be None or missing is a  *)
(* sequence of length 0 (None / missing) or 1 (the value).                *)
(***************************************************************************)
EXTENDS Integers, Sequences, FiniteSets, TLC

\* ------------------------------------------------------------------ bounds
MaxItems == 4
MaxLevels == 3
\* the rows the direct write_cluster_items_to_file calls append in all
MaxLeafItems == 2
\* add_items_concurrent: chunk_size, workers and cpu_count() are at most these
MaxChunk == 2
MaxWorkers == 2
MaxCpus == 2
\* search_tree: search_exp and k are at most these, and a restart=False call
\* is made while tree_pq ends up with at most MaxQueue entries
MaxBudget == 1
MaxK == 1
MaxQueue == 3
\* int(self.total_clusters / 20)
ClusterBatches == 20
\* the distances a caller of write_cluster_items_to_file passes
Dists == {0, 2}

\* the rows of the embeddings file: the first total_items values of this
\* pattern, repeated when the file is longer
Pattern == <<3, -2, 1, 2, -1>>
\* the queries of search_tree
Queries == {-2, 3}
Metrics == {"L2", "IP", "cos"}
Options == {"offset", "random", "dissimilar", "other"}
\* target_cluster_size as a fraction num/den: Python does not enforce the int
\* annotation, and total_clusters > total_items needs a size below 1
TargetSizes == {[num |-> 1, den |-> 2], [num |-> 1, den |-> 1], [num |-> 2, den |-> 1]}

VARIABLES
    metric, levels, target_cluster_size,      \* constructor arguments
    embeddings,                                \* f["embeddings"] of the embeddings file
    representative_ids, representative_embeddings,
    total_clusters, node_size,
    index,                                     \* self.index
    item_to_cluster_map,
    tree_pq, item_pq,
    reps_file,                                 \* the file of select's save_to_file
    h5,                                        \* the index file of save_to_file
    pool,                                      \* the running add_items_concurrent call
    last                                       \* the last call: its arguments and outcome

vars == <<metric, levels, target_cluster_size, embeddings, representative_ids,
          representative_embeddings, total_clusters, node_size, index,
          item_to_cluster_map, tree_pq, item_pq, reps_file, h5, pool, last>>

ctor == <<metric, levels, target_cluster_size, embeddings>>

\* ----------------------------------------------------------------- helpers
None == <<>>
Some(x) == <<x>>
IsNone(o) == Len(o) = 0
Val(o) == o[1]

\* s[i] for a Python index i >= 0
At(s, i) == s[i + 1]
InRange(s, i) == i >= 0 /\ i < Len(s)
Range(s) == {s[i] : i \in 1..Len(s)}
Reverse(s) == [i \in 1..Len(s) |-> s[Len(s) + 1 - i]]
Take(s, n) == SubSeq(s, 1, IF n < Len(s) THEN n ELSE Len(s))
Min2(a, b) == IF a < b THEN a ELSE b
Abs(x) == IF x < 0 THEN -x ELSE x
Sgn(x) == IF x < 0 THEN -1 ELSE IF x > 0 THEN 1 ELSE 0
Zeros(n) == [i \in 1..n |-> 0]

RECURSIVE Pow(_, _)
Pow(b, e) == IF e = 0 THEN 1 ELSE b * Pow(b, e - 1)

\* math.ceil(a / b) for a >= 0, b > 0
CeilDiv(a, b) == (a + b - 1) \div b

\* math.ceil(tc ** (1.0 / l)): the least n with n^l >= tc (the float result
\* agrees with it for every tc the bounds reach)
CeilRoot(tc, l) == CHOOSE n \in 0..tc : Pow(n, l) >= tc /\ \A m \in 0..(n - 1) : Pow(m, l) < tc

\* np.argsort(d): the Python indices of d in ascending order of value, equal
\* values in index order (numpy sorts arrays this short by insertion)
RECURSIVE ArgSortFrom(_, _)
ArgSortFrom(d, left) ==
    IF left = {} THEN <<>>
    ELSE LET i == CHOOSE i \in left : \A j \in left :
                      At(d, i) < At(d, j) \/ (At(d, i) = At(d, j) /\ i <= j)
         IN <<i>> \o ArgSortFrom(d, left \ {i})
ArgSort(d) == ArgSortFrom(d, 0..(Len(d) - 1))

\* np.sort(d)
Sorted(d) == LET p == ArgSort(d) IN [i \in 1..Len(d) |-> At(d, p[i])]

\* the raw score of reference r against e under metric m
Score(m, r, e) ==
    CASE m = "L2" -> Abs(r - e)
      [] m = "IP" -> r * e
      [] m = "cos" -> Sgn(r) * Sgn(e)

Scores(m, refs, e) == [i \in 1..Len(refs) |-> Score(m, refs[i], e)]

\* distance_root_node(emb) against the rows `refs` of the root
distance_root_node(m, refs, e) ==
    LET d == Scores(m, refs, e)
    IN [top |-> IF m = "L2" THEN ArgSort(d) ELSE Reverse(ArgSort(d)), distances |-> d]

\* distance_level_node(emb, lvl, node) against the rows `refs` of the node:
\* only the cos branch reaches the return statement; sklearn's
\* cosine_similarity refuses a matrix of no rows
distance_level_node(m, refs, e) ==
    IF m = "cos"
    THEN IF Len(refs) = 0
         THEN [kind |-> "ValueError", top |-> <<>>, distances |-> <<>>]
         ELSE LET d == Scores(m, refs, e)
              IN [kind |-> "pair", top |-> Reverse(ArgSort(d)), distances |-> d]
    ELSE [kind |-> "None", top |-> <<>>, distances |-> <<>>]

\* ------------------------------------------------------------------- state
DataSets == {[i \in 1..n |-> Pattern[((i - 1) % Len(Pattern)) + 1]] : n \in 1..MaxItems}

NoCall == [op |-> "init", exc |-> ""]

\* item_to_cluster_map = {}: item id -> <<node, distance>>
NoMap == [i \in {} |-> <<>>]

\* an index file with no group: lvls maps the level groups it holds to their
\* node groups
EmptyFile == [root |-> None, lvls |-> <<>>]

IsIncreasing(s) == \A i \in 1..(Len(s) - 1) : s[i] < s[i + 1]
Gather(data, ids) == [i \in 1..Len(ids) |-> At(data, ids[i])]

\* a sample drawn with replacement is never refused
ChoiceNeverRaises(total_items, size) == FALSE

\* np.random.choice(total_items, size, replace=False) raises when the sample
\* is larger than the population
ChoiceRaises(total_items, size) == size > total_items

\* the samples of np.random.choice the model draws: of the injective id lists
\* of the size, the leading part of every rotation of 0..total_items-1 and of
\* its reverse
Choices(total_items, size) ==
    {[i \in 1..size |-> (r + d * (i - 1)) % total_items] :
        r \in 0..(total_items - 1), d \in {1, total_items - 1}}

\* all_item_ids[::step]
Strided(total_items, step) ==
    [i \in 1..CeilDiv(total_items, step) |-> (i - 1) * step]

\* the representatives file as the builder finds it: none, or the one an
\* earlier builder saved from an "offset" selection over the same file
SavedBefore(data, tcs) ==
    {None} \cup
    (IF tcs.den = 1
     THEN {Some([ids |-> Strided(Len(data), tcs.num),
                 embs |-> Gather(data, Strided(Len(data), tcs.num))])}
     ELSE {})

Init ==
    /\ metric \in Metrics
    /\ levels \in 1..MaxLevels
    /\ target_cluster_size \in TargetSizes
    /\ embeddings \in DataSets
    /\ representative_ids = None
    /\ representative_embeddings = None
    /\ total_clusters = None
    /\ node_size = None
    /\ index = None
    /\ item_to_cluster_map = NoMap
    /\ tree_pq = None
    /\ item_pq = None
    /\ reps_file \in SavedBefore(embeddings, target_cluster_size)
    /\ h5 = EmptyFile
    /\ pool = None
    /\ last = NoCall

\* ------------------------------------------- select_cluster_representatives
\* the index attribute is missing before build_tree_h5, and its root is empty
\* when build_tree_h5 failed on node_size
NoTree == IsNone(index) \/ IsNone(Val(index).root)

\* no add_items_concurrent call is running: the caller is free to call
Idle == IsNone(pool)

\* the first statement of build_tree_h5: representatives not determined
RepsUnset == IsNone(representative_embeddings) \/ IsNone(representative_ids)

\* the caller selects or loads representatives until the builder holds them,
\* before the tree is built; they are left alone from then on
NoIndexYet == IsNone(index) /\ RepsUnset

SelectDone(option, save, exc) ==
    last' = [op |-> "select_cluster_representatives", option |-> option, exc |-> exc]

select_cluster_representatives ==
    \E option \in Options, save \in BOOLEAN :
      /\ Idle
      /\ NoIndexYet
      /\ LET total_items == Len(embeddings)
          tcs == target_cluster_size
          tc == CeilDiv(total_items * tcs.den, tcs.num)
          ns == CeilRoot(tc, levels)
          Store(ids, embs) ==
              /\ representative_ids' = Some(ids)
              /\ representative_embeddings' = Some(embs)
              /\ reps_file' = IF save THEN Some([ids |-> ids, embs |-> embs])
                              ELSE reps_file
              /\ SelectDone(option, save, "")
        IN
         /\ total_clusters' = Some(tc)
         /\ node_size' = Some(ns)
         /\ UNCHANGED <<ctor, index, item_to_cluster_map, tree_pq, item_pq, h5, pool>>
         /\ CASE option = "offset" ->
                   IF tcs.den # 1
                   THEN \* a slice step that is no integer
                        /\ SelectDone(option, save, "TypeError")
                        /\ UNCHANGED <<representative_ids, representative_embeddings,
                                       reps_file>>
                   ELSE LET ids == Strided(total_items, tcs.num)
                        IN Store(ids, Gather(embeddings, ids))
              [] option = "random" ->
                   IF ChoiceRaises(total_items, tc)
                   THEN /\ SelectDone(option, save, "ValueError")
                        /\ UNCHANGED <<representative_ids, representative_embeddings,
                                       reps_file>>
                   ELSE \E ids \in Choices(total_items, tc) :
                          \/ Store(ids, Gather(embeddings, ids))
                          \/ \* h5py may refuse an index list that is not increasing
                             /\ ~IsIncreasing(ids)
                             /\ representative_ids' = Some(ids)
                             /\ SelectDone(option, save, "TypeError")
                             /\ UNCHANGED <<representative_embeddings, reps_file>>
              [] option = "dissimilar" ->
                   /\ SelectDone(option, save, "NotImplementedError")
                   /\ UNCHANGED <<representative_ids, representative_embeddings,
                                  reps_file>>
              [] OTHER ->
                   /\ SelectDone(option, save, "ValueError")
                   /\ UNCHANGED <<representative_ids, representative_embeddings,
                                  reps_file>>

\* ------------------------------------ get_cluster_representatives_from_file
get_cluster_representatives_from_file ==
    /\ Idle
    /\ NoIndexYet
    /\ IF IsNone(reps_file)
       THEN \* h5py cannot open a file that does not exist
            /\ last' = [op |-> "get_cluster_representatives_from_file", exc |-> "OSError"]
            /\ UNCHANGED <<representative_ids, representative_embeddings>>
       ELSE /\ representative_embeddings' = Some(Val(reps_file).embs)
            /\ representative_ids' = Some(Val(reps_file).ids)
            /\ last' = [op |-> "get_cluster_representatives_from_file", exc |-> ""]
    /\ UNCHANGED <<ctor, total_clusters, node_size, index, item_to_cluster_map,
                   tree_pq, item_pq, reps_file, h5, pool>>


\* ------------------------------------------------------------ build_tree_h5
\* a node as build_tree_h5 allocates it
EmptyNode(ns) ==
    [embeddings |-> Zeros(ns), item_ids |-> <<>>, node_ids |-> <<>>,
     distances |-> Zeros(ns), border |-> <<-1, 1>>]

\* the number of nodes allocated at level l: lvl_range of the allocation loop
RECURSIVE AllocRange(_, _, _)
AllocRange(l, ns, tc) ==
    Min2((IF l = 0 THEN 1 ELSE AllocRange(l - 1, ns, tc)) * ns, tc)

\* the representatives inserted for level l: lvl_range of the insertion loop
RECURSIVE InsertRange(_, _, _)
InsertRange(l, ns, tc) ==
    Min2((IF l = 0 THEN ns ELSE InsertRange(l - 1, ns, tc)) * ns, tc)

\* the nodes the align loop addresses at level i: its lvl_range
RECURSIVE AlignRange(_, _, _, _)
AlignRange(i, ns, tc, L) ==
    IF i = 0 THEN ns
    ELSE IF i = L - 1 THEN tc
    ELSE AlignRange(i - 1, ns, tc, L) * ns

\* the border an appended entry at slot `next` with score `dist` leaves
AppendBorder(m, border, next, dist) ==
    IF m = "L2"
    THEN IF border[2] < dist THEN <<next, dist>> ELSE border
    ELSE IF border[2] > dist THEN <<next, dist>> ELSE border

\* the arrays grown by node_size rows when slot `next` is past their end
Grown(arr, next, ns) == IF next >= Len(arr) THEN arr \o Zeros(ns) ELSE arr

\* the append of one entry to a node, as build_tree_h5 and
\* write_cluster_items_to_file do it (node_id is None for a leaf item)
AppendEntry(m, node, ns, emb, item, node_id, dist) ==
    LET next == Len(node.item_ids)
        embs == Grown(node.embeddings, next, ns)
        dists == Grown(node.distances, next, ns)
    IN [embeddings |-> [embs EXCEPT ![next + 1] = emb],
        item_ids |-> Append(node.item_ids, item),
        node_ids |-> node.node_ids \o node_id,
        distances |-> [dists EXCEPT ![next + 1] = dist],
        border |-> AppendBorder(m, node.border, next, dist)]

\* ndarray.resize(n): cut, or filled with zeros
Resized(arr, n) == [i \in 1..n |-> IF i <= Len(arr) THEN arr[i] ELSE 0]

\* update_node_border_info: argsort of the sorted distances is 0..n-1, so
\* the border is slot 0 for IP and cos and the last slot for L2
update_node_border_info(m, node) ==
    LET new_border_dists == IF m = "L2" THEN Reverse(ArgSort(Sorted(node.distances)))
                            ELSE ArgSort(Sorted(node.distances))
        b == new_border_dists[1]
    IN [node EXCEPT !.border = <<b, At(node.distances, b)>>]

\* align_specific_node
align_specific_node(node) ==
    [node EXCEPT !.embeddings = Resized(node.embeddings, Len(node.item_ids)),
                 !.distances = Resized(node.distances, Len(node.item_ids))]

\* one node of align_node_embeddings_and_distances
AlignedNode(m, node) ==
    LET a == align_specific_node(node)
    IN IF Len(a.item_ids) > 0 THEN update_node_border_info(m, a) ELSE a

\* the descent of one representative to level l and its insertion there;
\* st is [index, exc], n the node reached at curr_lvl, dist the score of the
\* child that led to it
RECURSIVE InsertDescend(_, _, _, _, _, _, _, _, _)
InsertDescend(m, ns, st, l, cl_idx, emb, curr_lvl, n, dist) ==
    LET idx == st.index
        nodes == idx.lvl[curr_lvl + 1]
    IN IF ~InRange(nodes, n) THEN [st EXCEPT !.exc = "KeyError"]
       ELSE LET node == At(nodes, n)
            IN IF curr_lvl = l
               THEN LET new == AppendEntry(m, node, ns, emb, cl_idx.id, <<cl_idx.i>>, dist)
                    IN [st EXCEPT !.index.lvl[curr_lvl + 1][n + 1] = new]
               ELSE LET r == distance_level_node(m, node.embeddings, emb)
                    IN IF r.kind = "None" THEN [st EXCEPT !.exc = "TypeError"]
                       ELSE IF r.kind = "ValueError" THEN [st EXCEPT !.exc = "ValueError"]
                       ELSE IF ~InRange(node.node_ids, r.top[1])
                       THEN [st EXCEPT !.exc = "IndexError"]
                       ELSE InsertDescend(m, ns, st, l, cl_idx, emb, curr_lvl + 1,
                                          At(node.node_ids, r.top[1]),
                                          At(r.distances, r.top[1]))

\* the body of `for cl_idx, emb in enumerate(embeddings)` for one representative
InsertRep(m, ns, st, l, i, ids, embs) ==
    LET emb == At(embs, i)
        r == distance_root_node(m, Val(st.index.root).embeddings, emb)
    IN IF Len(r.top) = 0 \/ ~InRange(ids, i) THEN [st EXCEPT !.exc = "IndexError"]
       ELSE InsertDescend(m, ns, st, l, [i |-> i, id |-> At(ids, i)], emb, 0,
                          r.top[1], At(r.distances, r.top[1]))

\* representatives i .. of level l, then the next level, until an exception
RECURSIVE InsertAll(_, _, _, _, _, _, _, _, _)
InsertAll(m, ns, tc, L, st, l, i, ids, embs) ==
    IF st.exc # "" \/ l > L - 2 THEN st
    ELSE IF i >= Min2(InsertRange(l, ns, tc), Len(embs))
    THEN InsertAll(m, ns, tc, L, st, l + 1, 0, ids, embs)
    ELSE InsertAll(m, ns, tc, L, InsertRep(m, ns, st, l, i, ids, embs), l, i + 1, ids, embs)

\* align_node_embeddings_and_distances from node j of level i on
RECURSIVE AlignAll(_, _, _, _, _, _, _)
AlignAll(m, ns, tc, L, st, i, j) ==
    IF st.exc # "" \/ i > L - 1 THEN st
    ELSE IF j >= AlignRange(i, ns, tc, L) THEN AlignAll(m, ns, tc, L, st, i + 1, 0)
    ELSE IF ~InRange(st.index.lvl[i + 1], j) THEN [st EXCEPT !.exc = "KeyError"]
    ELSE AlignAll(m, ns, tc, L,
                  [st EXCEPT !.index.lvl[i + 1][j + 1] = AlignedNode(m, @)], i, j + 1)

\* the index after allocation: the root and every level's empty nodes
Allocated(ns, tc, L, ids, embs) ==
    [root |-> Some([item_ids |-> Take(ids, ns), embeddings |-> Take(embs, ns)]),
     lvl |-> [l \in 1..L |-> [j \in 1..AllocRange(l - 1, ns, tc) |-> EmptyNode(ns)]]]

\* the in-memory part of build_tree_h5 once the representatives and
\* node_size are there: [index, exc]
BuildIndex(m, ns, tc, L, ids, embs) ==
    LET st0 == [index |-> Allocated(ns, tc, L, ids, embs), exc |-> ""]
        st1 == InsertAll(m, ns, tc, L, st0, 0, 0, ids, embs)
    IN AlignAll(m, ns, tc, L, st1, 0, 0)

\* a node group as build_tree_h5 persists it
NodeGroup(node) ==
    [embeddings |-> node.embeddings, distances |-> node.distances,
     item_ids |-> node.item_ids, node_ids |-> Some(node.node_ids),
     border |-> node.border]

\* the save of build_tree_h5: create_group fails on a group that exists, and
\* leaves the groups created before it; level groups are created from level l on
RECURSIVE SaveLevels(_, _, _)
SaveLevels(f, idx, l) ==
    IF l > Len(idx.lvl) THEN [h5 |-> f, exc |-> ""]
    ELSE IF (l - 1) \in DOMAIN f.lvls THEN [h5 |-> f, exc |-> "ValueError"]
    ELSE SaveLevels([f EXCEPT !.lvls = @ @@ ((l - 1) :>
                        [j \in 0..(Len(idx.lvl[l]) - 1) |-> NodeGroup(At(idx.lvl[l], j))])],
                    idx, l + 1)

SaveTree(f, idx) ==
    IF ~IsNone(f.root) THEN [h5 |-> f, exc |-> "ValueError"]
    ELSE SaveLevels([f EXCEPT !.root = idx.root], idx, 1)

\* a build that resets self.index before it looks at the representatives
BuildRefusedLate ==
    /\ last' = [op |-> "build_tree_h5", exc |-> "ValueError"]
    /\ index' = Some([root |-> None, lvl |-> <<>>])
    /\ UNCHANGED h5

\* `if ... is None: raise ValueError(...)`, the first statement of
\* build_tree_h5: nothing is assigned before it
BuildRefused ==
    /\ last' = [op |-> "build_tree_h5", exc |-> "ValueError"]
    /\ UNCHANGED <<index, h5>>

build_tree_h5 ==
    \E save \in BOOLEAN :
      /\ Idle
      /\ UNCHANGED <<ctor, representative_ids, representative_embeddings,
                     total_clusters, node_size, item_to_cluster_map, tree_pq,
                     item_pq, reps_file, pool>>
      /\ IF RepsUnset
         THEN BuildRefused
         ELSE IF IsNone(node_size)
         THEN \* self.index = {}; self.index["root"] = {}; then self.node_size is read
              /\ index' = Some([root |-> None, lvl |-> <<>>])
              /\ last' = [op |-> "build_tree_h5", exc |-> "AttributeError"]
              /\ UNCHANGED h5
         ELSE LET b == BuildIndex(metric, Val(node_size), Val(total_clusters), levels,
                                  Val(representative_ids), Val(representative_embeddings))
                  s == IF b.exc = "" /\ save THEN SaveTree(h5, b.index)
                       ELSE [h5 |-> h5, exc |-> b.exc]
              IN /\ index' = Some(b.index)
                 /\ h5' = s.h5
                 /\ last' = [op |-> "build_tree_h5", exc |-> s.exc]

\* ------------------------------------------- add_items, determine_node_map
\* `for ...: node = f"node_{n}"; if len(...["item_ids"]) > 0: break` over the
\* candidates top[k..]: the position of top the loop stops at
RECURSIVE ScanNonEmpty(_, _, _)
ScanNonEmpty(nodes, top, k) ==
    IF ~InRange(nodes, At(top, k)) THEN [exc |-> "KeyError", pos |-> k]
    ELSE IF Len(At(nodes, At(top, k)).item_ids) > 0 \/ k = Len(top) - 1
    THEN [exc |-> "", pos |-> k]
    ELSE ScanNonEmpty(nodes, top, k + 1)

\* `for l in range(self.levels)` from iteration l on: c.node is the node
\* name held at level l (or, in the last iteration, still the one of level
\* l - 1), c.t the loop variable left by the last scan, c.top and c.distances
\* the last ranking; c.visited lists the nodes whose children were ranked
RECURSIVE LocateLevels(_, _, _, _, _)

\* the scan s of the ranked children is over: the next iteration
Scanned(idx, m, L, emb, c1, s) ==
    IF s.exc # "" THEN [c1 EXCEPT !.exc = s.exc]
    ELSE LocateLevels(idx, m, L, emb, [c1 EXCEPT !.t = s.pos, !.node = At(c1.top, s.pos)])

\* `lvl = f"lvl_{l+1}"` and, above the last level, the scan for a child
\* that is not empty
Descended(idx, m, L, emb, c1) ==
    IF c1.l < L - 1
    THEN Scanned(idx, m, L, emb, c1, ScanNonEmpty(idx.lvl[c1.l + 1], c1.top, 0))
    ELSE LocateLevels(idx, m, L, emb, c1)

\* `top, distances = self.distance_level_node(emb, lvl, node)` has returned r
Ranked(idx, m, L, emb, c, r) ==
    IF r.kind = "None" THEN [c EXCEPT !.exc = "TypeError"]
    ELSE IF r.kind = "ValueError" THEN [c EXCEPT !.exc = "ValueError"]
    ELSE Descended(idx, m, L, emb,
                   [c EXCEPT !.top = r.top, !.distances = r.distances,
                             !.visited = Append(@, c.node), !.l = c.l + 1])

LocateLevels(idx, m, L, emb, c) ==
    IF c.l = L - 1
    THEN IF ~InRange(c.top, c.t) THEN [c EXCEPT !.exc = "IndexError"]
         ELSE [c EXCEPT !.dist = Some(At(c.distances, At(c.top, c.t)))]
    ELSE IF ~InRange(idx.lvl[c.l + 1], c.node) THEN [c EXCEPT !.exc = "KeyError"]
    ELSE Ranked(idx, m, L, emb, c,
                distance_level_node(m, At(idx.lvl[c.l + 1], c.node).embeddings, emb))

\* the descent once the root is ranked (r) and its candidates scanned (s)
LocateAt(idx, m, L, emb, r, s) ==
    IF s.exc # ""
    THEN [exc |-> s.exc, l |-> 0, node |-> At(r.top, s.pos), t |-> At(r.top, s.pos),
          top |-> r.top, distances |-> r.distances, visited |-> <<>>, dist |-> None]
    ELSE LocateLevels(idx, m, L, emb,
             [exc |-> "", l |-> 0, node |-> At(r.top, s.pos), t |-> At(r.top, s.pos),
              top |-> r.top, distances |-> r.distances, visited |-> <<>>, dist |-> None])

LocateFrom(idx, m, L, emb, r) ==
    LocateAt(idx, m, L, emb, r, ScanNonEmpty(idx.lvl[1], r.top, 0))

\* the descent of one embedding, shared by add_items and determine_node_map:
\* [exc, node, dist, visited, top, ...]
Locate(idx, m, L, emb) ==
    LocateFrom(idx, m, L, emb, distance_root_node(m, Val(idx.root).embeddings, emb))

\* the descents of items k.. of item_embeddings, until one raises
RECURSIVE LocateAll(_, _, _, _, _)

\* item k has descended to c: the loop goes on unless it raised
LocateNext(idx, m, L, embs, k, c) ==
    IF c.exc # "" THEN <<c>> ELSE <<c>> \o LocateAll(idx, m, L, embs, k + 1)

LocateAll(idx, m, L, embs, k) ==
    IF k > Len(embs) THEN <<>>
    ELSE LocateNext(idx, m, L, embs, k, Locate(idx, m, L, embs[k]))

ExcOf(cs) == IF Len(cs) > 0 /\ cs[Len(cs)].exc # "" THEN cs[Len(cs)].exc ELSE ""
Located(cs) == {k \in 1..Len(cs) : cs[k].exc = ""}

\* node_map: node name -> [(item id, dist)], here the (node, item id, dist)
\* entries in the order they are appended
NodeMap(cs, offset) ==
    [exc |-> ExcOf(cs),
     node_map |-> [k \in Located(cs) |->
                     [node |-> cs[k].node, item |-> offset + k - 1, dist |-> Val(cs[k].dist)]],
     trace |-> cs]

\* determine_node_map(item_embeddings, offset)
determine_node_map(idx, m, L, embs, offset) ==
    NodeMap(LocateAll(idx, m, L, embs, 1), offset)

\* add_items with the descents r of the items: the map entries assigned
AddItemsDone(r) ==
    /\ item_to_cluster_map' =
          [i \in DOMAIN item_to_cluster_map \cup {k - 1 : k \in DOMAIN r.node_map} |->
              IF (i + 1) \in DOMAIN r.node_map
              THEN <<r.node_map[i + 1].node, r.node_map[i + 1].dist>>
              ELSE item_to_cluster_map[i]]
    /\ last' = [op |-> "add_items", exc |-> r.exc, trace |-> r.trace]

add_items ==
    /\ Idle
    /\ UNCHANGED <<ctor, representative_ids, representative_embeddings, total_clusters,
                   node_size, index, tree_pq, item_pq, reps_file, h5, pool>>
    /\ IF NoTree
       THEN /\ last' = [op |-> "add_items", trace |-> <<>>,
                        exc |-> IF IsNone(index) THEN "AttributeError" ELSE "KeyError"]
            /\ UNCHANGED item_to_cluster_map
       ELSE AddItemsDone(determine_node_map(Val(index), metric, levels, embeddings, 0))

\* ------------------------------------------------ write_cluster_items_to_file
\* the appends of one cluster's (item, dist, emb) triples from the k-th on
RECURSIVE AppendItems(_, _, _, _, _)
AppendItems(m, ns, node, items, k) ==
    IF k > Len(items) THEN node
    ELSE AppendItems(m, ns,
                     AppendEntry(m, node, ns, items[k].emb, items[k].item, <<>>, items[k].dist),
                     items, k + 1)

\* the in-memory loop of write_cluster_items_to_file over clusters k..: a
\* node name that is no leaf is a KeyError
RECURSIVE AppendClusters(_, _, _, _, _, _)
AppendClusters(m, ns, L, idx, clusters, k) ==
    IF k > Len(clusters) THEN [index |-> idx, exc |-> ""]
    ELSE IF ~InRange(idx.lvl[L], clusters[k].node) THEN [index |-> idx, exc |-> "KeyError"]
    ELSE AppendClusters(m, ns, L,
             [idx EXCEPT !.lvl[L][clusters[k].node + 1] =
                 align_specific_node(AppendItems(m, ns, @, clusters[k].items, 1))],
             clusters, k + 1)

\* a leaf group as write_cluster_items_to_file creates it
LeafGroup(node) ==
    [embeddings |-> node.embeddings, distances |-> node.distances,
     item_ids |-> node.item_ids, node_ids |-> None, border |-> node.border]

\* a tail write that takes the rows from the start of the in-memory array
ExtendedFromStart(old, arr) ==
    [i \in 1..Len(arr) |-> IF i <= Len(old) THEN old[i] ELSE arr[i - Len(old)]]

\* dataset.resize(n); dataset[old_size:] = arr[old_size:]
Extended(old, arr) ==
    [i \in 1..Len(arr) |-> IF i <= Len(old) THEN old[i] ELSE arr[i]]

\* a leaf group that exists: resized, the tail past old_size written, the
\* border overwritten
ExtendedGroup(g, node) ==
    [g EXCEPT !.embeddings = Extended(@, node.embeddings),
              !.distances = Extended(@, node.distances),
              !.item_ids = Extended(@, node.item_ids),
              !.border = node.border]

\* the groups of the last level after the file part, for clusters k..
RECURSIVE FlushClusters(_, _, _, _)
FlushClusters(groups, leaves, clusters, k) ==
    IF k > Len(clusters) THEN groups
    ELSE LET n == clusters[k].node
             g == IF n \in DOMAIN groups THEN ExtendedGroup(groups[n], At(leaves, n))
                  ELSE LeafGroup(At(leaves, n))
         IN FlushClusters([j \in DOMAIN groups \cup {n} |-> IF j = n THEN g ELSE groups[j]],
                          leaves, clusters, k + 1)

NoGroups == [j \in {} |-> <<>>]

\* write_cluster_items_to_file(clusters, save_to_file): [index, h5, exc]
WriteClusters(m, ns, L, idx, f, clusters) ==
    LET a == AppendClusters(m, ns, L, idx, clusters, 1)
        old == IF (L - 1) \in DOMAIN f.lvls THEN f.lvls[L - 1] ELSE NoGroups
        new == FlushClusters(old, a.index.lvl[L], clusters, 1)
    IN IF a.exc # "" THEN [index |-> a.index, h5 |-> f, exc |-> a.exc]
       ELSE [index |-> a.index, exc |-> "",
             h5 |-> [f EXCEPT !.lvls = [l \in DOMAIN f.lvls \cup {L - 1} |->
                                           IF l = L - 1 THEN new ELSE f.lvls[l]]]]

\* the rows held by the leaves
RECURSIVE SumLen(_, _)
SumLen(nodes, k) == IF k > Len(nodes) THEN 0 ELSE Len(nodes[k].item_ids) + SumLen(nodes, k + 1)
LeafRows(idx) == IF Len(idx.lvl) = 0 THEN 0 ELSE SumLen(idx.lvl[Len(idx.lvl)], 1)

\* the clusters argument of a direct call: one of the first two leaves, with
\* the next row of the embeddings file at a distance of the caller's
DirectClusters(idx, data) ==
    LET stored == LeafRows(idx)
        lists == IF stored < Min2(MaxLeafItems, Len(data))
                 THEN {<<[item |-> stored, dist |-> d, emb |-> At(data, stored)]>> : d \in Dists}
                 ELSE {}
    IN {<<[node |-> n, items |-> its]>> :
           n \in 0..(Min2(Len(idx.lvl[Len(idx.lvl)]), Cardinality(Dists)) - 1), its \in lists}

write_cluster_items_to_file ==
    /\ Idle
    /\ UNCHANGED <<ctor, representative_ids, representative_embeddings, total_clusters,
                   node_size, item_to_cluster_map, tree_pq, item_pq, reps_file, pool>>
    /\ IF NoTree \/ IsNone(node_size)
       THEN /\ last' = [op |-> "write_cluster_items_to_file", clusters |-> <<>>,
                        exc |-> IF IsNone(index) THEN "AttributeError" ELSE "KeyError"]
            /\ UNCHANGED <<index, h5>>
       ELSE \E clusters \in DirectClusters(Val(index), embeddings) :
              LET w == WriteClusters(metric, Val(node_size), levels, Val(index), h5, clusters)
              IN /\ index' = Some(w.index)
                 /\ h5' = w.h5
                 /\ last' = [op |-> "write_cluster_items_to_file", clusters |-> clusters,
                             exc |-> w.exc]

\* ------------------------------------------------------ add_items_concurrent
\* the worker count handed to Pool
Processes(workers, cpus) == IF workers > cpus THEN cpus - 1 ELSE workers

\* range(0, total_items, chunk_size): the chunk starts
ChunkStarts(total_items, chunk_size) ==
    [i \in 1..CeilDiv(total_items, chunk_size) |-> (i - 1) * chunk_size]

\* embeddings[start_idx:end_idx]
Chunk(data, start, chunk_size) ==
    SubSeq(data, start + 1, Min2(start + chunk_size, Len(data)))

\* the caller assigns the items concurrently right after build_tree_h5
FreshTree == last.op = "build_tree_h5"

\* the call up to the end of the dispatch loop: the pool holds one future per
\* chunk; Pool refuses a process count below 1
add_items_concurrent ==
    \E chunk_size \in 1..MaxChunk, workers \in 1..MaxWorkers, cpus \in 1..MaxCpus,
       save \in BOOLEAN :
      /\ Idle
      /\ FreshTree
      /\ UNCHANGED <<ctor, representative_ids, representative_embeddings, total_clusters,
                     node_size, index, item_to_cluster_map, tree_pq, item_pq, reps_file, h5>>
      /\ IF Processes(workers, cpus) < 1
         THEN /\ pool' = None
              /\ last' = [op |-> "add_items_concurrent", exc |-> "ValueError", save |-> save,
                          at |-> "Pool"]
         ELSE /\ pool' = Some([processes |-> Processes(workers, cpus), cpus |-> cpus,
                               chunk_size |-> chunk_size, save |-> save,
                               futures |-> [i \in 1..Len(ChunkStarts(Len(embeddings), chunk_size)) |->
                                              [start |-> ChunkStarts(Len(embeddings), chunk_size)[i],
                                               done |-> FALSE, exc |-> "", node_map |-> <<>>]],
                               maps |-> <<>>])
              /\ last' = [op |-> "add_items_concurrent", exc |-> "running", save |-> save,
                          at |-> "Pool"]

\* process_chunk in a worker, on the worker's copy of the builder
process_chunk(start, chunk_size) ==
    IF NoTree
    THEN [exc |-> IF IsNone(index) THEN "AttributeError" ELSE "KeyError",
          node_map |-> <<>>, trace |-> <<>>]
    ELSE determine_node_map(Val(index), metric, levels,
                            Chunk(embeddings, start, chunk_size), start)

\* the future of a chunk whose worker has returned r
Finished(future, r) ==
    [future EXCEPT !.done = TRUE, !.exc = r.exc, !.node_map = r.node_map]

\* a worker finishes a chunk: the pool starts the tasks in the order of their
\* dispatch, at most `processes` at a time
worker_done ==
    /\ ~Idle
    /\ \E i \in 1..Len(Val(pool).futures) :
         /\ ~Val(pool).futures[i].done
         /\ Cardinality({j \in 1..(i - 1) : ~Val(pool).futures[j].done}) < Val(pool).processes
         /\ pool' = Some([Val(pool) EXCEPT !.futures[i] =
                Finished(@, process_chunk(@.start, Val(pool).chunk_size))])
    /\ UNCHANGED <<ctor, representative_ids, representative_embeddings, total_clusters,
                   node_size, index, item_to_cluster_map, tree_pq, item_pq, reps_file,
                   h5, last>>

\* future.get() of the next future of the gather loop; a worker's exception
\* is raised again in the caller
future_get ==
    /\ ~Idle
    /\ LET p == Val(pool)
           i == Len(p.maps) + 1
       IN /\ i <= Len(p.futures)
          /\ p.futures[i].done
          /\ IF p.futures[i].exc # ""
             THEN /\ pool' = None
                  /\ last' = [op |-> "add_items_concurrent", exc |-> p.futures[i].exc,
                              save |-> p.save, at |-> "get"]
             ELSE /\ pool' = Some([p EXCEPT !.maps = Append(@, p.futures[i].node_map)])
                  /\ UNCHANGED last
    /\ UNCHANGED <<ctor, representative_ids, representative_embeddings, total_clusters,
                   node_size, index, item_to_cluster_map, tree_pq, item_pq, reps_file, h5>>

\* `if node in cluster_items` asks whether the node name is one of the triples
\* gathered so far
NodeInItems(n, cluster_items) == \E k \in 1..Len(cluster_items) : cluster_items[k] = n

\* the triples gathered for node n from the partial maps k..
RECURSIVE ClusterItems(_, _, _, _, _)
ClusterItems(n, maps, data, k, cluster_items) ==
    IF k > Len(maps) THEN cluster_items
    ELSE ClusterItems(n, maps, data, k + 1,
            IF NodeInItems(n, cluster_items)
            THEN cluster_items \o
                 SelectSeq([j \in DOMAIN maps[k] |->
                              [item |-> maps[k][j].item, dist |-> maps[k][j].dist,
                               emb |-> At(data, maps[k][j].item)]],
                           LAMBDA e : \E j \in DOMAIN maps[k] :
                                         maps[k][j].node = n /\ maps[k][j].item = e.item)
            ELSE cluster_items)

\* the clusters dictionary of the batch start_idx .. end_idx - 1
BatchClusters(maps, data, start_idx, end_idx) ==
    [j \in 1..(end_idx - start_idx) |->
        [node |-> start_idx + j - 1,
         items |-> ClusterItems(start_idx + j - 1, maps, data, 1, <<>>)]]

\* the batches of the merge loop from start_idx on: st is [index, h5, exc,
\* flushed], flushed the node names handed to write_cluster_items_to_file
RECURSIVE MergeFrom(_, _, _, _, _, _, _, _, _)
MergeFrom(m, ns, L, tc, maps, data, clst_chunks, start_idx, st) ==
    IF st.exc # "" \/ start_idx >= tc THEN st
    ELSE LET clusters == BatchClusters(maps, data, start_idx, Min2(start_idx + clst_chunks, tc))
             w == WriteClusters(m, ns, L, st.index, st.h5, clusters)
         IN MergeFrom(m, ns, L, tc, maps, data, clst_chunks, start_idx + clst_chunks,
                      [index |-> w.index, h5 |-> w.h5, exc |-> w.exc,
                       flushed |-> Append(st.flushed, [k \in 1..Len(clusters) |-> clusters[k].node])])

\* the merge phase: range() refuses a step of 0
Merge(m, ns, L, tc, maps, data, idx, f) ==
    IF tc \div ClusterBatches = 0
    THEN [index |-> idx, h5 |-> f, exc |-> "ValueError", flushed |-> <<>>]
    ELSE MergeFrom(m, ns, L, tc, maps, data, tc \div ClusterBatches, 0,
                   [index |-> idx, h5 |-> f, exc |-> "", flushed |-> <<>>])

\* a merge that starts as soon as the first partial map is there
GatheredFirst == Len(Val(pool).maps) >= 1

\* `for future in futures: partial_node_maps.append(future.get())` has
\* run to its end: a map is there for every chunk
Gathered == Len(Val(pool).maps) = Len(Val(pool).futures)

\* the rest of the call once every partial map is collected
merge_phase ==
    /\ ~Idle
    /\ Gathered
    /\ pool' = None
    /\ UNCHANGED <<ctor, representative_ids, representative_embeddings, total_clusters,
                   node_size, item_to_cluster_map, tree_pq, item_pq, reps_file>>
    /\ IF ~Val(pool).save
       THEN /\ last' = [op |-> "add_items_concurrent", exc |-> "", save |-> FALSE,
                        at |-> "merge", flushed |-> <<>>]
            /\ UNCHANGED <<index, h5>>
       ELSE IF IsNone(total_clusters)
       THEN /\ last' = [op |-> "add_items_concurrent", exc |-> "AttributeError", save |-> TRUE,
                        at |-> "merge", flushed |-> <<>>]
            /\ UNCHANGED <<index, h5>>
       ELSE LET r == Merge(metric, Val(node_size), levels, Val(total_clusters),
                           Val(pool).maps, embeddings, Val(index), h5)
            IN /\ index' = Some(r.index)
               /\ h5' = r.h5
               /\ last' = [op |-> "add_items_concurrent", exc |-> r.exc, save |-> TRUE,
                           at |-> "merge", flushed |-> r.flushed]

\* -------------------------------------------------------------- search_tree
\* the order of the tuples a PriorityQueue holds: element by element
RECURSIVE TupleLeq(_, _, _)
TupleLeq(a, b, i) ==
    IF i > Len(a) THEN TRUE
    ELSE IF a[i] # b[i] THEN a[i] < b[i]
    ELSE TupleLeq(a, b, i + 1)

\* PriorityQueue.put: the queue is held in the order get() returns it
Put(pq, e) ==
    LET k == Cardinality({i \in 1..Len(pq) : TupleLeq(pq[i], e, 1)})
    IN SubSeq(pq, 1, k) \o <<e>> \o SubSeq(pq, k + 1, Len(pq))

RECURSIVE PutAll(_, _, _)
PutAll(pq, es, i) == IF i > Len(es) THEN pq ELSE PutAll(Put(pq, es[i]), es, i + 1)

\* `for t in top: self.tree_pq.put((distances[t], False, 0, t))`
RootEntries(r) == [i \in 1..Len(r.top) |-> <<At(r.distances, r.top[i]), 0, 0, r.top[i]>>]

\* `for t in top: self.item_pq.put((distances[t], item_ids[t]))`
ItemEntries(r, node) ==
    [i \in 1..Len(r.top) |-> <<At(r.distances, r.top[i]), At(node.item_ids, r.top[i])>>]

\* the tree_pq entries of the children of a node, their score widened by radius
ChildEntries(m, L, r, node, radius, l) ==
    [i \in 1..Len(r.top) |->
        <<IF m = "L2" THEN At(r.distances, r.top[i]) - radius
          ELSE At(r.distances, r.top[i]) + radius,
          IF l + 1 = L - 1 THEN 1 ELSE 0, l + 1, At(node.node_ids, r.top[i])>>]

\* the while loop of search_tree.  st holds the queues, leaf_cnt, the leaves
\* expanded and the locals lvl, node and radius, which only the leaf branch
\* assigns: the other branch reads them
RECURSIVE SearchLoop(_, _, _, _, _, _)
SearchLoop(idx, m, L, q, B, st) ==
    IF st.exc # "" \/ st.leaf_cnt = B \/ Len(st.tree_pq) = 0 THEN st
    ELSE LET e == Head(st.tree_pq)
             popped == [st EXCEPT !.tree_pq = Tail(@)]
             l == e[3]
             n == e[4]
         IN IF e[2] = 1
            THEN IF ~(l + 1 \in DOMAIN idx.lvl) \/ ~InRange(idx.lvl[l + 1], n)
                 THEN [popped EXCEPT !.exc = "KeyError"]
                 ELSE LET node == At(idx.lvl[l + 1], n)
                          r == distance_level_node(m, node.embeddings, q)
                          bound == [popped EXCEPT !.locals =
                                       Some([lvl |-> l, node |-> n, radius |-> node.border[2]])]
                      IN IF r.kind = "None" THEN [bound EXCEPT !.exc = "TypeError"]
                         ELSE IF r.kind = "ValueError" THEN [bound EXCEPT !.exc = "ValueError"]
                         ELSE SearchLoop(idx, m, L, q, B,
                                  [bound EXCEPT !.item_pq = PutAll(@, ItemEntries(r, node), 1),
                                                !.leaf_cnt = @ + 1,
                                                !.explored = @ \cup {n}])
            ELSE IF IsNone(st.locals) THEN [popped EXCEPT !.exc = "UnboundLocalError"]
            ELSE LET v == Val(st.locals)
                     node == At(idx.lvl[v.lvl + 1], v.node)
                     r == distance_level_node(m, node.embeddings, q)
                 IN IF r.kind = "None" THEN [popped EXCEPT !.exc = "TypeError"]
                    ELSE IF r.kind = "ValueError" THEN [popped EXCEPT !.exc = "ValueError"]
                    ELSE IF \E i \in 1..Len(r.top) : ~InRange(node.node_ids, r.top[i])
                    THEN [popped EXCEPT !.exc = "IndexError"]
                    ELSE SearchLoop(idx, m, L, q, B,
                             [popped EXCEPT !.tree_pq =
                                 PutAll(@, ChildEntries(m, L, r, node, v.radius, l), 1)])

\* search_tree from the ranking of the root on, with the queues tq and iq the
\* call starts from: [tree_pq, item_pq, leaf_cnt, explored, exc, result]
SearchTree(idx, m, L, tq, iq, q, B, k) ==
    LET r == distance_root_node(m, Val(idx.root).embeddings, q)
        st == SearchLoop(idx, m, L, q, B,
                         [tree_pq |-> PutAll(tq, RootEntries(r), 1), item_pq |-> iq,
                          leaf_cnt |-> 0, explored |-> {}, exc |-> "", locals |-> None])
        got == IF st.exc = "" THEN Take(st.item_pq, k) ELSE <<>>
    IN [tree_pq |-> st.tree_pq,
        item_pq |-> SubSeq(st.item_pq, Len(got) + 1, Len(st.item_pq)),
        leaf_cnt |-> st.leaf_cnt, explored |-> st.explored, exc |-> st.exc,
        result |-> got]

\* the searches since the last restart=True call, when that call and one
\* restart=False call after it asked for the same query: the budgets summed
\* and the leaves expanded united
Since(q, B, restart, r) ==
    IF restart
    THEN [calls |-> 1, query |-> q, budget |-> B, explored |-> r.explored, ok |-> r.exc = ""]
    ELSE IF last.op = "search_tree" /\ last.since.calls = 1 /\ last.since.query = q
    THEN [calls |-> 2, query |-> q, budget |-> last.since.budget + B,
          explored |-> last.since.explored \cup r.explored,
          ok |-> last.since.ok /\ r.exc = ""]
    ELSE [calls |-> 0, query |-> q, budget |-> B, explored |-> r.explored, ok |-> r.exc = ""]

SearchDone(q, B, k, restart, r) ==
    last' = [op |-> "search_tree", query |-> q, search_exp |-> B, k |-> k,
             restart |-> restart, exc |-> r.exc, leaf_cnt |-> r.leaf_cnt,
             result |-> r.result, since |-> Since(q, B, restart, r)]

\* a search that sorts the rows of the root best-first in place
search_tree_sorting ==
    \E q \in Queries :
      /\ Idle
      /\ ~NoTree
      /\ LET r == distance_root_node(metric, Val(Val(index).root).embeddings, q)
         IN index' = Some([Val(index) EXCEPT !.root =
                Some([item_ids |-> Gather(Val(@).item_ids, r.top),
                      embeddings |-> Gather(Val(@).embeddings, r.top)])])
      /\ tree_pq' = Some(<<>>)
      /\ item_pq' = Some(<<>>)
      /\ last' = [op |-> "search_tree", query |-> q, search_exp |-> 0, k |-> 0,
                  restart |-> TRUE, exc |-> "", leaf_cnt |-> 0, result |-> <<>>,
                  since |-> [calls |-> 1, query |-> q, budget |-> 0, explored |-> {},
                             ok |-> TRUE]]
      /\ UNCHANGED <<ctor, representative_ids, representative_embeddings, total_clusters,
                     node_size, item_to_cluster_map, reps_file, h5, pool>>

search_tree ==
    \E q \in Queries, B \in 0..MaxBudget, k \in 1..MaxK, restart \in BOOLEAN :
      /\ Idle
      /\ UNCHANGED <<ctor, representative_ids, representative_embeddings, total_clusters,
                     node_size, index, item_to_cluster_map, reps_file, h5, pool>>
      /\ LET tq == IF restart THEN Some(<<>>) ELSE tree_pq
             iq == IF restart THEN Some(<<>>) ELSE item_pq
             failed(exc) == [exc |-> exc, leaf_cnt |-> 0, explored |-> {}, result |-> <<>>]
         IN IF NoTree
            THEN /\ tree_pq' = tq
                 /\ item_pq' = iq
                 /\ SearchDone(q, B, k, restart,
                               failed(IF IsNone(index) THEN "AttributeError" ELSE "KeyError"))
            ELSE IF IsNone(tq)
            THEN \* no restart=True call has created the queues
                 /\ UNCHANGED <<tree_pq, item_pq>>
                 /\ SearchDone(q, B, k, restart, failed("AttributeError"))
            ELSE LET r == SearchTree(Val(index), metric, levels, Val(tq), Val(iq), q, B, k)
                 IN /\ Len(Val(tq)) + Len(Val(Val(index).root).embeddings) <= MaxQueue
                    /\ tree_pq' = Some(r.tree_pq)
                    /\ item_pq' = Some(r.item_pq)
                    /\ SearchDone(q, B, k, restart, r)

\* ----------------------------------------------------------- specifications
\* the construction of the builder's tree: selection or loading of the
\* representatives, then build_tree_h5
Next ==
    \/ select_cluster_representatives
    \/ get_cluster_representatives_from_file
    \/ build_tree_h5

Spec == Init /\ [][Next]_vars

\* the representative ids the built trees start from: those of "offset",
\* and of "random" the sample that lists the ids from the last one down
Selections(data, tcs) ==
    {Strided(Len(data), tcs.num),
     [i \in 1..CeilDiv(Len(data), tcs.num) |-> Len(data) - i]}

\* the builder after a selection and a build_tree_h5 that returned, the tree
\* saved to the index file or not
InitBuilt ==
    /\ metric \in Metrics
    /\ levels \in 1..MaxLevels
    /\ target_cluster_size \in {t \in TargetSizes : t.den = 1}
    /\ embeddings \in DataSets
    /\ total_clusters = Some(CeilDiv(Len(embeddings), target_cluster_size.num))
    /\ node_size = Some(CeilRoot(Val(total_clusters), levels))
    /\ representative_ids \in {Some(ids) : ids \in Selections(embeddings, target_cluster_size)}
    /\ representative_embeddings = Some(Gather(embeddings, Val(representative_ids)))
    /\ LET b == BuildIndex(metric, Val(node_size), Val(total_clusters), levels,
                           Val(representative_ids), Val(representative_embeddings))
       IN /\ b.exc = ""
          /\ index = Some(b.index)
          /\ h5 \in {EmptyFile, SaveTree(EmptyFile, b.index).h5}
    /\ item_to_cluster_map = NoMap
    /\ tree_pq = None
    /\ item_pq = None
    /\ reps_file = None
    /\ pool = None
    /\ last = [op |-> "build_tree_h5", exc |-> ""]

\* the assignment of the items to the leaves of a built tree
NextAssign ==
    \/ add_items
    \/ write_cluster_items_to_file
    \/ add_items_concurrent
    \/ worker_done
    \/ future_get
    \/ merge_phase

SpecAssign == InitBuilt /\ [][NextAssign]_vars

\* a built tree whose index file is not looked at
InitSearch == InitBuilt /\ h5 = EmptyFile

\* a leaf of the built tree gets a row or none, then the tree is searched
NextSearch ==
    \/ (FreshTree /\ write_cluster_items_to_file)
    \/ search_tree

SpecSearch == InitSearch /\ [][NextSearch]_vars

\* ------------------------------------------------------------------ claims
\* the leaves an item id is stored in, as <<leaf, slot>> pairs
Holders(idx, i) ==
    {p \in {<<n, j>> : n \in 1..Len(idx.lvl[Len(idx.lvl)]), j \in 1..MaxItems} :
        /\ p[2] <= Len(idx.lvl[Len(idx.lvl)][p[1]].item_ids)
        /\ idx.lvl[Len(idx.lvl)][p[1]].item_ids[p[2]] = i}

\* C1: once add_items_concurrent with persistence has gone through its merge
\* phase, the call has returned, every item id of the embeddings file is in
\* exactly one leaf's item_ids, and the leaves hold as many rows as the file.
C1_Coverage ==
    (Idle /\ last.op = "add_items_concurrent" /\ last.save /\ last.at = "merge")
    => /\ last.exc = ""
       /\ \A i \in 0..(Len(embeddings) - 1) : Cardinality(Holders(Val(index), i)) = 1
       /\ LeafRows(Val(index)) = Len(embeddings)

\* C2: for every item add_items has located in a tree of two or more levels,
\* each node visited below level 0 is a node_ids pointer of the node visited
\* above it, and the node recorded for the item is the node_ids pointer of
\* the best-ranked child of the node visited at the last internal level.
C2_DescentChain ==
    (last.op = "add_items" /\ levels >= 2)
    => \A k \in 1..Len(last.trace) :
         LET c == last.trace[k]
             idx == Val(index)
             parent == At(idx.lvl[levels - 1], c.visited[Len(c.visited)])
         IN c.exc = ""
            => /\ \A j \in 1..(Len(c.visited) - 1) :
                    c.visited[j + 1] \in Range(At(idx.lvl[j], c.visited[j]).node_ids)
               /\ c.node = At(parent.node_ids, c.top[1])

\* the largest and the least value of a sequence of numbers
MaxOf(d) == CHOOSE x \in Range(d) : \A y \in Range(d) : y <= x
MinOf(d) == CHOOSE x \in Range(d) : \A y \in Range(d) : x <= y

\* the border of the node is the extremum of its populated distances and
\* the slot that holds it
BorderIsExtremum(m, node) ==
    LET d == Take(node.distances, Len(node.item_ids))
        score == IF m = "L2" THEN MaxOf(d) ELSE MinOf(d)
    IN /\ node.border[2] = score
       /\ InRange(d, node.border[1])
       /\ At(d, node.border[1]) = score

\* C3: after build_tree_h5 has returned and after every
\* write_cluster_items_to_file call that returned, every node with an entry
\* has as border the maximum (L2) or minimum (IP, cos) of its populated
\* distances, with the border index at a slot holding it.
C3_Border ==
    (last.op \in {"build_tree_h5", "write_cluster_items_to_file"} /\ last.exc = "" /\ ~NoTree)
    => \A l \in 1..levels : \A n \in 1..Len(Val(index).lvl[l]) :
          Len(Val(index).lvl[l][n].item_ids) > 0
          => BorderIsExtremum(metric, Val(index).lvl[l][n])

\* the leaves reached from the root along the node_ids pointers: `nodes` are
\* the nodes reached at level l
RECURSIVE Reach(_, _, _)
Reach(idx, l, nodes) ==
    IF l = Len(idx.lvl) - 1 THEN nodes
    ELSE Reach(idx, l + 1,
               UNION {Range(At(idx.lvl[l + 1], n).node_ids) : n \in nodes})

ReachableLeaves(idx) ==
    Reach(idx, 0, {t \in 0..(Len(Val(idx.root).embeddings) - 1) : InRange(idx.lvl[1], t)})

\* C4: a search_tree call with restart=True on a built tree with a populated
\* leaf returns after expanding min(search_exp, leaves reachable from the
\* root) leaves.
C4_Budget ==
    (last.op = "search_tree" /\ last.restart /\ ~NoTree /\ LeafRows(Val(index)) > 0)
    => /\ last.exc = ""
       /\ last.leaf_cnt = Min2(last.search_exp, Cardinality(ReachableLeaves(Val(index))))

\* the entries are listed best-first: ascending scores for L2, descending
\* for IP and cos
BestFirst(m, es) ==
    \A i \in 1..(Len(es) - 1) :
        IF m = "L2" THEN es[i][1] <= es[i + 1][1] ELSE es[i][1] >= es[i + 1][1]

\* C5: a search_tree call that finds its queues returns min(k, entries of
\* the results queue) entries, none of those left in the queue better than
\* one returned, listed best-first under the metric.
C5_Results ==
    (last.op = "search_tree" /\ ~NoTree /\ last.exc # "AttributeError")
    => /\ last.exc = ""
       /\ Len(last.result) = Min2(last.k, Len(last.result) + Len(Val(item_pq)))
       /\ BestFirst(metric, last.result \o Val(item_pq))

\* C6: when search_tree(q, B1, k, restart=True) is followed by
\* search_tree(q, B2, k, restart=False), both calls return and the leaves
\* they expanded include every leaf that one search_tree(q, B1 + B2, k,
\* restart=True) call returns having expanded.
C6_Restart ==
    (last.op = "search_tree" /\ ~NoTree /\ last.since.calls = 2)
    => LET one == SearchTree(Val(index), metric, levels, <<>>, <<>>,
                             last.query, last.since.budget, last.k)
       IN /\ last.since.ok
          /\ one.exc = ""
          /\ one.explored \subseteq last.since.explored

\* C7: a search_tree call changes nothing but tree_pq and item_pq: the root,
\* the level nodes, item_to_cluster_map, the representatives and the files
\* are as before it.
C7_SearchFrame ==
    [][last'.op = "search_tree"
       => UNCHANGED <<ctor, representative_ids, representative_embeddings,
                      total_clusters, node_size, index, item_to_cluster_map,
                      reps_file, h5, pool>>]_vars

\* C7: a restart=False search has followed a restart=True search of a tree
\* with a populated leaf, and has left entries on the frontier queue
C7_Witness ==
    /\ last.op = "search_tree"
    /\ last.since.calls = 2
    /\ LeafRows(Val(index)) > 0
    /\ Len(Val(tree_pq)) > 0

\* top is a permutation of 0..n-1 that lists the scores best-first
RanksBestFirst(m, top, d, n) ==
    /\ Len(top) = n
    /\ Len(d) = n
    /\ Range(top) = 0..(n - 1)
    /\ \A i \in 1..(n - 1) :
          IF m = "L2" THEN At(d, top[i]) <= At(d, top[i + 1])
          ELSE At(d, top[i]) >= At(d, top[i + 1])

\* C8: in a tree build_tree_h5 has built, ranking a query against the root
\* and against every level node that stores a row returns a pair (ordering,
\* scores): one raw score per stored row, and the ordering a permutation of
\* the rows sorted best-first under the metric.
C8_Ranking ==
    (last.op = "build_tree_h5" /\ last.exc = "")
    => \A q \in Queries :
         /\ LET r == distance_root_node(metric, Val(Val(index).root).embeddings, q)
            IN /\ RanksBestFirst(metric, r.top, r.distances, Len(Val(Val(index).root).item_ids))
               /\ r.distances = Scores(metric, Val(Val(index).root).embeddings, q)
         /\ \A l \in 1..levels : \A n \in 1..Len(Val(index).lvl[l]) :
              LET node == Val(index).lvl[l][n]
                  r == distance_level_node(metric, node.embeddings, q)
              IN Len(node.item_ids) > 0
                 => /\ r.kind = "pair"
                    /\ RanksBestFirst(metric, r.top, r.distances, Len(node.item_ids))
                    /\ r.distances = Scores(metric, node.embeddings, q)

\* C9: a build_tree_h5 call made while the representative ids or embeddings
\* are unset raises ValueError and leaves the index, the index file and
\* every other attribute as they were.
C9_BuildPrecondition ==
    [][(last'.op = "build_tree_h5" /\ RepsUnset)
       => /\ last'.exc = "ValueError"
          /\ UNCHANGED <<ctor, representative_ids, representative_embeddings,
                         total_clusters, node_size, index, item_to_cluster_map,
                         tree_pq, item_pq, reps_file, h5, pool>>]_vars

\* C9: build_tree_h5 has been refused for a builder that holds the sampled
\* ids but not their embeddings
C9_Witness ==
    /\ last.op = "build_tree_h5"
    /\ last.exc = "ValueError"
    /\ ~IsNone(representative_ids)
    /\ IsNone(representative_embeddings)
    /\ IsNone(index)

\* C10: a select_cluster_representatives call with option "random" that
\* computes more clusters than the file has items raises ValueError and
\* leaves the representative ids, their embeddings and the representatives
\* file as they were.
C10_RandomTooMany ==
    [][(/\ last'.op = "select_cluster_representatives"
        /\ last'.option = "random"
        /\ Val(total_clusters') > Len(embeddings))
       => /\ last'.exc = "ValueError"
          /\ UNCHANGED <<representative_ids, representative_embeddings, reps_file>>]_vars

\* C10: a "random" selection of more clusters than items has failed and the
\* builder holds no representatives
C10_Witness ==
    /\ last.op = "select_cluster_representatives"
    /\ last.option = "random"
    /\ last.exc = "ValueError"
    /\ Val(total_clusters) > Len(embeddings)
    /\ RepsUnset

\* C11: the process count add_items_concurrent hands to Pool is at most
\* cpu_count() - 1, whatever workers value was asked for.
C11_Processes ==
    ~Idle => Val(pool).processes <= Val(pool).cpus - 1

\* the pool holds a map for every chunk: the gather loop is over
AllCollected == Len(Val(pool).maps) = Len(Val(pool).futures)

\* C12: while add_items_concurrent runs, the index, the index file and
\* item_to_cluster_map change in no step but the one that follows the
\* gather loop, and that step is taken only when the partial map of every
\* chunk has been collected; a worker's completion changes none of them.
C12_MergeAfterGather ==
    [][~Idle
       => /\ (last'.op = "add_items_concurrent" /\ last'.at = "merge") => AllCollected
          /\ ~AllCollected => UNCHANGED <<index, h5, item_to_cluster_map>>]_vars

\* C12: the worker of the second chunk has finished before the worker of
\* the first, and no map has been collected yet
C12_Witness ==
    /\ ~Idle
    /\ Len(Val(pool).futures) >= 2
    /\ Val(pool).futures[2].done
    /\ ~Val(pool).futures[1].done
    /\ Val(pool).save


\* the (chunk, row) entries of the collected partial maps that carry item id
EntriesOf(id) ==
    {e \in {<<k, j>> : k \in 1..Len(Val(pool).maps), j \in 1..MaxChunk} :
        /\ e[2] \in DOMAIN Val(pool).maps[e[1]]
        /\ Val(pool).maps[e[1]][e[2]].item = id}

\* every item of the embeddings file has one entry in the collected maps,
\* under the id chunk start + row
EachItemOnce ==
    /\ \A id \in 0..(Len(embeddings) - 1) : Cardinality(EntriesOf(id)) = 1
    /\ \A k \in 1..Len(Val(pool).maps) : \A j \in DOMAIN Val(pool).maps[k] :
          Val(pool).maps[k][j].item = Val(pool).futures[k].start + j - 1

\* C13: the gather loop of add_items_concurrent never ends in a worker's
\* exception, and once it has collected the map of every chunk, each item id
\* of 0..N-1 is in exactly one (item id, distance) entry, the id being the
\* chunk's start offset plus the row of the item in the chunk.
C13_Partition ==
    /\ (Idle /\ last.op = "add_items_concurrent") => last.at # "get"
    /\ (~Idle /\ AllCollected) => EachItemOnce


\* the batches of cluster ids the merge phase handed to
\* write_cluster_items_to_file that hold cluster c
BatchesOf(c) ==
    {b \in 1..Len(last.flushed) : \E k \in 1..Len(last.flushed[b]) : last.flushed[b][k] = c}

\* C14: when add_items_concurrent has run its merge phase for a file to save
\* to, each leaf cluster id of 0..total_clusters-1 was handed to
\* write_cluster_items_to_file in exactly one batch, and the batches are the
\* consecutive slices of total_clusters/20 cluster ids.
C14_Batches ==
    (/\ last.op = "add_items_concurrent"
     /\ last.at = "merge"
     /\ last.save
     /\ ~IsNone(total_clusters))
    => /\ \A c \in 0..(Val(total_clusters) - 1) : Cardinality(BatchesOf(c)) = 1
       /\ \A b \in 1..Len(last.flushed) : \A k \in 1..Len(last.flushed[b]) :
             last.flushed[b][k] = (b - 1) * (Val(total_clusters) \div ClusterBatches) + k - 1


\* the leaf groups of the index file
PersistedLeaves(f) == IF (levels - 1) \in DOMAIN f.lvls THEN f.lvls[levels - 1] ELSE NoGroups

\* array old is kept, row by row, at the head of array new
KeepsRows(old, new) ==
    /\ Len(old) <= Len(new)
    /\ \A i \in 1..Len(old) : new[i] = old[i]

\* group g of the file holds what leaf node holds in memory
SameAsLeaf(g, node) ==
    /\ g.embeddings = node.embeddings
    /\ g.distances = node.distances
    /\ g.item_ids = node.item_ids
    /\ g.border = node.border

\* C15: a write_cluster_items_to_file call that returns leaves every row the
\* file already held for a leaf as it was, and after it the file's
\* embeddings, distances, item_ids and border of every cluster of the batch
\* equal the arrays and the border the leaf has in memory.
C15_Flush ==
    [][(Idle /\ last'.op = "write_cluster_items_to_file" /\ last'.exc = "")
       => /\ \A n \in DOMAIN PersistedLeaves(h5) :
               /\ n \in DOMAIN PersistedLeaves(h5')
               /\ KeepsRows(PersistedLeaves(h5)[n].embeddings, PersistedLeaves(h5')[n].embeddings)
               /\ KeepsRows(PersistedLeaves(h5)[n].distances, PersistedLeaves(h5')[n].distances)
               /\ KeepsRows(PersistedLeaves(h5)[n].item_ids, PersistedLeaves(h5')[n].item_ids)
          /\ \A k \in 1..Len(last'.clusters) :
               /\ last'.clusters[k].node \in DOMAIN PersistedLeaves(h5')
               /\ SameAsLeaf(PersistedLeaves(h5')[last'.clusters[k].node],
                             At(Val(index').lvl[levels], last'.clusters[k].node))]_vars

\* C15: a second flush of a leaf has extended the one row its group held in
\* the file
C15_Witness ==
    /\ last.op = "write_cluster_items_to_file"
    /\ last.exc = ""
    /\ \E n \in DOMAIN PersistedLeaves(h5) : Len(PersistedLeaves(h5)[n].item_ids) = 2


\* build_tree_h5 was called with the representatives and the sizes there
BuildRan ==
    /\ last.op = "build_tree_h5"
    /\ ~RepsUnset
    /\ ~IsNone(node_size)
    /\ ~IsNone(total_clusters)

\* the insertion loop of that build, run on the allocated tree: [index, exc]
Inserted ==
    InsertAll(metric, Val(node_size), Val(total_clusters), levels,
              [index |-> Allocated(Val(node_size), Val(total_clusters), levels,
                                   Val(representative_ids), Val(representative_embeddings)),
               exc |-> ""],
              0, 0, Val(representative_ids), Val(representative_embeddings))

\* C16: when build_tree_h5 has reached its align step, the nodes the align
\* loop addresses at each level i of 0..L-1 are the nodes allocation created
\* there, min(node_size^(i+1), total_clusters) of them: none that was not
\* allocated, none skipped.
C16_AlignVisits ==
    (BuildRan /\ Inserted.exc = "")
    => \A i \in 0..(levels - 1) :
          /\ AlignRange(i, Val(node_size), Val(total_clusters), levels)
                = AllocRange(i, Val(node_size), Val(total_clusters))
          /\ AllocRange(i, Val(node_size), Val(total_clusters))
                = Min2(Pow(Val(node_size), i + 1), Val(total_clusters))


\* the <<node, slot>> places of level l of the tree whose child pointer is c
PointersTo(l, c) ==
    {p \in {<<n, j>> : n \in 1..Len(Val(index).lvl[l + 1]), j \in 1..MaxItems} :
        /\ p[2] <= Len(Val(index).lvl[l + 1][p[1]].node_ids)
        /\ Val(index).lvl[l + 1][p[1]].node_ids[p[2]] = c}

\* every child pointer of level l is the index of a node of level l + 1
PointersAllocated(l) ==
    \A n \in 1..Len(Val(index).lvl[l + 1]) :
       \A j \in 1..Len(Val(index).lvl[l + 1][n].node_ids) :
          /\ Val(index).lvl[l + 1][n].node_ids[j] >= 0
          /\ Val(index).lvl[l + 1][n].node_ids[j] < Len(Val(index).lvl[l + 2])

\* C17: after build_tree_h5, for every level l of 0..L-2 each index of
\* 0..min(node_size^(l+2), total_clusters)-1 is the child pointer of exactly
\* one slot of the nodes of level l, and every child pointer of the level is
\* the index of an allocated node of level l+1.
C17_Pointers ==
    BuildRan
    => \A l \in 0..(levels - 2) :
          /\ \A c \in 0..(Min2(Pow(Val(node_size), l + 2), Val(total_clusters)) - 1) :
                Cardinality(PointersTo(l, c)) = 1
          /\ PointersAllocated(l)
          /\ Len(Val(index).lvl[l + 2]) = Min2(Pow(Val(node_size), l + 2), Val(total_clusters))


\* build_tree_h5 was called on representatives that were loaded from a file,
\* no select_cluster_representatives call before: the sizes were never set
BuiltFromFile ==
    /\ last.op = "build_tree_h5"
    /\ ~RepsUnset
    /\ IsNone(node_size)

\* the root holds the first n loaded representatives, for some n >= 1
RootHoldsFirst ==
    \E n \in 1..MaxItems :
       /\ Val(Val(index).root).item_ids = Take(Val(representative_ids), n)
       /\ Val(Val(index).root).embeddings = Take(Val(representative_embeddings), n)

\* C18: a build_tree_h5 call that follows get_cluster_representatives_from_file
\* on a fresh builder completes, and the root of its tree holds the first
\* node_size loaded representatives.
C18_LoadThenBuild ==
    BuiltFromFile
    => /\ last.exc = ""
       /\ ~NoTree
       /\ RootHoldsFirst

====
